---- MODULE Spec2Model ----
(***************************************************************************)
(* A model of discord.ext.oauth: the OAuth2Client (client.py) and the     *)
(* TokenResponse, Guild and User models (models.py).                       *)
(*                                                                         *)
(* Python values are modelled as follows.                                  *)
(*  - An opaque str (a token, a code, an id printed in decimal) is a TLA+  *)
(*    string.  A str that the code builds by formatting or joining is a    *)
(*    sequence of such atoms, so concatenation is \o.                      *)
(*  - A dict is a function whose domain is the set of its keys; d[k] on a  *)
(*    missing key raises KeyError.  IdZeroKey stands for the tuple key     *)
(*    ("id", 0), the key that the subscript data["id", 0] looks up.        *)
(*  - An object is a record of its attributes.                             *)
(*  - A coroutine is split at its single await: the call action runs the   *)
(*    code up to the request, the resume action the code after it.         *)
(***************************************************************************)
EXTENDS Integers, Sequences, FiniteSets, TLC

VARIABLES
    ctor,        \* the arguments OAuth2Client was constructed with
    cfg,         \* OAuth2Client._id, _auth, _redirect, _scopes
    state_info,  \* HTTPClient._state_info
    cpc,         \* where the application's client coroutine is suspended
    creq,        \* the request that coroutine is awaiting
    carg,        \* the token argument of the pending identify call
    cret,        \* what the last client call returned or raised
    users,       \* <<>> or <<the User returned by identify>>
    tpc,         \* per task: the User coroutine it is suspended in
    treq,        \* per task: the request it is awaiting
    targ,        \* per task: the refresh argument of its pending fetch_guilds call
    tcache,      \* per task: the cache as it was when its pending fetch_guilds was called
    ret,         \* what the last completed User call returned or raised
    ncalls,      \* number of User calls made so far
    order,       \* the tasks suspended in refresh(), in the order they called it
    tsince,      \* per task: times the held token was replaced since its pending call
    tpassed,     \* per task: the last refresh() that succeeded while its own was pending
    lastw,       \* set by a successful refresh(), cleared by the next User step
    url,         \* what the last auth() call returned
    authArgs     \* the arguments of the last auth() call

vars == <<ctor, cfg, state_info, cpc, creq, carg, cret, users, tpc, treq, targ, tcache, ret,
          ncalls,
          order, tsince, tpassed, lastw, url, authArgs>>

userVars == <<users, tpc, treq, targ, tcache, ret, ncalls, order, tsince, tpassed, lastw>>
clientVars == <<cpc, creq, carg, cret>>
authVars == <<url, authArgs>>

----------------------------------------------------------------------------
(* Bounds *)

NumTasks == 2
MaxCalls == 3
MaxGuilds == 2

Tasks == 1..NumTasks

----------------------------------------------------------------------------
(* Python constants *)

None == "None"
Absent == "<absent>"
NoException == "<none>"
IdZeroKey == "(id, 0)"

DISCORD_URL == <<"https://discord.com">>

----------------------------------------------------------------------------
(* models.py: TokenResponse *)

TokenFields == {"access_token", "token_type", "expires_in", "refresh_token", "scope"}

NoToken == [f \in TokenFields |-> Absent]

\* A Python value handed over as `data`: a dict (d holds it) or a str.
PyDict(d) == [type |-> "dict", d |-> d]
PyStr == [type |-> "str", d |-> [k \in {} |-> Absent]]

\* data[key] for a key that str cannot take or the dict does not have
SubscriptError(data) == IF data.type = "dict" THEN "KeyError" ELSE "TypeError"

\* The same constructor written with data.get(key): missing fields become None.
TokenResponseInitGet(data) ==
    IF data.type = "dict"
    THEN [raised |-> NoException,
          token |-> [f \in TokenFields |->
                        IF f \in DOMAIN data.d THEN data.d[f] ELSE None]]
    ELSE [raised |-> "AttributeError", token |-> NoToken]

TokenResponseInit(data) ==
    IF data.type = "dict" /\ TokenFields \subseteq DOMAIN data.d
    THEN [raised |-> NoException, token |-> [f \in TokenFields |-> data.d[f]]]
    ELSE [raised |-> SubscriptError(data), token |-> NoToken]

----------------------------------------------------------------------------
(* models.py: Guild *)

NoGuild == [id |-> Absent, name |-> Absent, user |-> Absent]

\* Guild.__init__ with the id read by the subscript data["id"].
GuildInitIdKey(data, user) ==
    IF "id" \notin DOMAIN data THEN [raised |-> "KeyError", guild |-> NoGuild]
    ELSE IF "name" \notin DOMAIN data THEN [raised |-> "KeyError", guild |-> NoGuild]
    ELSE [raised |-> NoException,
          guild |-> [id |-> data["id"], name |-> data["name"], user |-> user]]

\* Guild.__init__ with the id read by data.get("id", 0), as guild.py reads it.
GuildInitIdGet(data, user) ==
    IF "name" \notin DOMAIN data THEN [raised |-> "KeyError", guild |-> NoGuild]
    ELSE [raised |-> NoException,
          guild |-> [id |-> IF "id" \in DOMAIN data THEN data["id"] ELSE "0",
                     name |-> data["name"], user |-> user]]

GuildInit(data, user) ==
    IF IdZeroKey \notin DOMAIN data THEN [raised |-> "KeyError", guild |-> NoGuild]
    ELSE IF "name" \notin DOMAIN data THEN [raised |-> "KeyError", guild |-> NoGuild]
    ELSE [raised |-> NoException,
          guild |-> [id |-> data[IdZeroKey], name |-> data["name"], user |-> user]]

----------------------------------------------------------------------------
(* models.py: User *)

UserFields == {"avatar", "id", "username", "discriminator"}

NoUser == [_acr |-> NoToken, id |-> Absent, name |-> Absent, guilds |-> <<>>]

\* acr is the credential identify passes on: a TokenResponse or a str.
PyToken(tok) == [type |-> "TokenResponse", str |-> Absent, obj |-> tok]
PyString(s) == [type |-> "str", str |-> s, obj |-> NoToken]

UserInit(data, acr) ==
    LET built == IF acr.type = "TokenResponse"
                 THEN [raised |-> NoException, token |-> acr.obj]
                 ELSE TokenResponseInit(PyStr)
    IN  IF built.raised # NoException
        THEN [raised |-> built.raised, user |-> NoUser]
        ELSE IF ~(UserFields \subseteq DOMAIN data)
        THEN [raised |-> "KeyError", user |-> NoUser]
        ELSE [raised |-> NoException,
              user |-> [_acr |-> built.token, id |-> data["id"],
                        name |-> data["username"], guilds |-> <<>>]]

\* User.access_token and User.refresh_token (properties)
access_token(u) == u._acr.access_token
refresh_token(u) == u._acr.refresh_token

----------------------------------------------------------------------------
(* http.py: HTTPClient.request, by its contract.  It either returns the   *)
(* decoded body or raises.  The body of a token request is a dict, the     *)
(* body of GET /users/@me a dict, of GET /users/@me/guilds a list of dicts.*)

EmptyDict == [k \in {} |-> Absent]

AccessTokens == {"at1", "at2"}
RefreshTokens == {"rt1", "rt2"}
TokenPairs == {<<"at1", "rt1">>, <<"at2", "rt2">>}

FullTokenPayload(a, r) ==
    [access_token |-> a, token_type |-> "Bearer", expires_in |-> "604800",
     refresh_token |-> r, scope |-> "identify"]

Restrict(d, S) == [k \in S |-> d[k]]

TokenPayloads ==
    {FullTokenPayload(p[1], p[2]) : p \in TokenPairs}
    \cup {Restrict(FullTokenPayload("at1", "rt1"), TokenFields \ {f}) : f \in TokenFields}

FullUserPayload ==
    [avatar |-> "a_1", id |-> "80351110224678912", username |-> "nelly",
     discriminator |-> "1337"]

UserPayloads == {FullUserPayload, Restrict(FullUserPayload, UserFields \ {"avatar"})}

\* Guild objects as the transport decodes them from JSON, so every key is a
\* string: one carrying an id and a name, and one carrying an id only.
GuildPayloads ==
    {[id |-> "1", name |-> "g1"],
     [id |-> "2"]}

SeqsUpTo(S, n) == UNION {[1..k -> S] : k \in 0..n}

GuildResponses == SeqsUpTo(GuildPayloads, MaxGuilds)

TransportErrors == {"HTTPException"}

TokenReplies ==
    {[raised |-> NoException, token |-> d, user |-> EmptyDict, guilds |-> <<>>] :
        d \in TokenPayloads}
UserReplies ==
    {[raised |-> NoException, token |-> EmptyDict, user |-> d, guilds |-> <<>>] :
        d \in UserPayloads}
GuildReplies ==
    {[raised |-> NoException, token |-> EmptyDict, user |-> EmptyDict, guilds |-> g] :
        g \in GuildResponses}
ErrorReplies ==
    {[raised |-> e, token |-> EmptyDict, user |-> EmptyDict, guilds |-> <<>>] :
        e \in TransportErrors}
NoReply == [raised |-> Absent, token |-> EmptyDict, user |-> EmptyDict, guilds |-> <<>>]

\* Route plus the data and headers passed to request; keys lists the keys of
\* data and headers that are present.
NoRequest ==
    [method |-> Absent, path |-> Absent, keys |-> {}, client_id |-> Absent,
     client_secret |-> Absent, grant_type |-> Absent, code |-> Absent,
     refresh_token |-> Absent, redirect_uri |-> Absent, scope |-> <<>>,
     Authorization |-> <<>>]

----------------------------------------------------------------------------
(* client.py: OAuth2Client *)

PyNone == [isNone |-> TRUE, s |-> <<>>]
PyVal(s) == [isNone |-> FALSE, s |-> s]

RECURSIVE Join(_, _)
Join(sep, list) ==
    IF list = <<>> THEN <<>>
    ELSE IF Len(list) = 1 THEN <<list[1]>>
    ELSE <<list[1]>> \o sep \o Join(sep, Tail(list))

\* str(x) as an f-string renders it
Format(x) == IF x.isNone THEN <<"None">> ELSE x.s

\* Python truth value of an Optional[str]
Truthy(x) == ~x.isNone /\ x.s # <<>>

ClientInit(client_id, client_secret, redirect_uri, scopes) ==
    [_id |-> client_id, _auth |-> client_secret, _redirect |-> redirect_uri,
     _scopes |-> IF scopes.isNone THEN PyNone ELSE PyVal(Join(<<" ">>, scopes.s))]

StateInfo(c) ==
    [client_id |-> c._id, client_secret |-> c._auth, redirect_uri |-> c._redirect,
     scopes |-> c._scopes]

\* auth() with the optional parameters appended in the other order
authSwapped(c, state, prompt) ==
    DISCORD_URL \o <<"/api/oauth2/authorize", "?">>
        \o <<"client_id", "=", c._id>> \o <<"&">>
        \o <<"redirect_uri", "=", c._redirect>> \o <<"&">>
        \o (<<"scope", "=">> \o Format(c._scopes)) \o <<"&">>
        \o <<"response_type", "=", "code">>
        \o (IF Truthy(prompt) THEN <<"&", "prompt", "=">> \o prompt.s ELSE <<>>)
        \o (IF Truthy(state) THEN <<"&", "state", "=">> \o state.s ELSE <<>>)

auth(c, state, prompt) ==
    LET client_id == <<"client_id", "=", c._id>>
        redirect_uri == <<"redirect_uri", "=", c._redirect>>
        scopes == <<"scope", "=">> \o Format(c._scopes)
        response_type == <<"response_type", "=", "code">>
        url0 == DISCORD_URL \o <<"/api/oauth2/authorize", "?">>
                  \o client_id \o <<"&">> \o redirect_uri \o <<"&">>
                  \o scopes \o <<"&">> \o response_type
        url1 == IF Truthy(state) THEN url0 \o <<"&", "state", "=">> \o state.s ELSE url0
    IN  IF Truthy(prompt) THEN url1 \o <<"&", "prompt", "=">> \o prompt.s ELSE url1

ExchangeCodeRequest(c, code) ==
    [NoRequest EXCEPT
        !.method = "POST", !.path = "/oauth2/token",
        !.keys = {"client_id", "client_secret", "grant_type", "code", "redirect_uri"}
                    \cup (IF c._scopes.isNone THEN {} ELSE {"scope"}),
        !.client_id = c._id, !.client_secret = c._auth,
        !.grant_type = "authorization_code", !.code = code,
        !.redirect_uri = c._redirect,
        !.scope = IF c._scopes.isNone THEN <<>> ELSE c._scopes.s]

IdentifyRequest(token) ==
    LET access_token_ == IF token.type = "TokenResponse"
                         THEN token.obj.access_token ELSE token.str
    IN  [NoRequest EXCEPT
            !.method = "GET", !.path = "/users/@me", !.keys = {"Authorization"},
            !.Authorization = <<"Bearer ", access_token_>>]

----------------------------------------------------------------------------
(* models.py: User.refresh and User.fetch_guilds, the code around the await *)

\* the refresh request sending the held access token
RefreshRequestAccess(u, si) ==
    [NoRequest EXCEPT
        !.method = "POST", !.path = "/oauth2/token",
        !.keys = {"client_id", "client_secret", "grant_type", "refresh_token"},
        !.client_id = si.client_id, !.client_secret = si.client_secret,
        !.grant_type = "refresh_token", !.refresh_token = access_token(u)]

RefreshRequest(u, si) ==
    [NoRequest EXCEPT
        !.method = "POST", !.path = "/oauth2/token",
        !.keys = {"client_id", "client_secret", "grant_type", "refresh_token"},
        !.client_id = si.client_id, !.client_secret = si.client_secret,
        !.grant_type = "refresh_token", !.refresh_token = refresh_token(u)]

\* refresh() keeping the token it already holds
RefreshAssignKeep(u, token_resp) == u

RefreshAssign(u, token_resp) == [u EXCEPT !._acr = token_resp]

\* line 120 without the test of the cache: refresh=False never fetches
FetchGuildsCachedNoTest(u, refresh) == ~refresh

\* line 120: true when fetch_guilds returns the cache
FetchGuildsCached(u, refresh) == ~refresh /\ u.guilds # <<>>

\* the guilds request sending the other token of the held TokenResponse
FetchGuildsRequestOther(u) ==
    [NoRequest EXCEPT
        !.method = "GET", !.path = "/users/@me/guilds", !.keys = {"Authorization"},
        !.Authorization = <<"Bearer ", refresh_token(u)>>]

FetchGuildsRequest(u) ==
    [NoRequest EXCEPT
        !.method = "GET", !.path = "/users/@me/guilds", !.keys = {"Authorization"},
        !.Authorization = <<"Bearer ", access_token(u)>>]

\* lines 126-131: the cache is reset, then filled one Guild at a time; an
\* exception leaves what was appended so far.
RECURSIVE FetchGuildsLoop(_, _, _)
FetchGuildsLoop(resp, uid, acc) ==
    IF resp = <<>> THEN [raised |-> NoException, guilds |-> acc]
    ELSE LET g == GuildInit(Head(resp), uid)
         IN  IF g.raised # NoException
             THEN [raised |-> g.raised, guilds |-> acc]
             ELSE FetchGuildsLoop(Tail(resp), uid, Append(acc, g.guild))

----------------------------------------------------------------------------
(* What a call returned or raised *)

NoReturn ==
    [task |-> 0, op |-> Absent, refresh |-> FALSE, requested |-> FALSE,
     raised |-> NoException, token |-> NoToken, guilds |-> <<>>, user |-> NoUser]

Returned(t, op) == [NoReturn EXCEPT !.task = t, !.op = op, !.requested = TRUE]
Raised(t, op, e) == [Returned(t, op) EXCEPT !.raised = e]

\* by: whether the other refresh() was called "earlier" or "later" than this
\* task's; sent: the refresh_token it sent.
NotPassed == [by |-> Absent, sent |-> Absent]

\* task: whose refresh() succeeded; sent: the refresh_token it sent; other: what
\* succeeded while it was pending; replaced: the access token it replaced.
NoWriter == [task |-> 0, sent |-> Absent, other |-> NotPassed, replaced |-> Absent]

----------------------------------------------------------------------------
(* Initial states *)

Codes == {"c0de"}
Scopes == {PyNone, PyVal(<<"identify", "guilds">>)}
AuthScopes == {PyNone, PyVal(<<>>), PyVal(<<"identify">>), PyVal(<<"identify", "guilds">>)}
AuthStates == {PyNone, PyVal(<<>>), PyVal(<<"xyz">>)}
AuthPrompts == {PyNone, PyVal(<<>>), PyVal(<<"consent">>)}

InitWith(clientIds, redirects, scopeChoices) ==
    /\ ctor \in [client_id : clientIds, client_secret : {"s"},
                 redirect_uri : redirects, scopes : scopeChoices]
    /\ cfg = ClientInit(ctor.client_id, ctor.client_secret, ctor.redirect_uri,
                        ctor.scopes)
    /\ state_info = StateInfo(cfg)
    /\ cpc = "idle" /\ creq = NoRequest /\ carg = PyString(Absent) /\ cret = NoReturn
    /\ users = <<>>
    /\ tpc = [t \in Tasks |-> "idle"]
    /\ treq = [t \in Tasks |-> NoRequest]
    /\ targ = [t \in Tasks |-> FALSE]
    /\ tcache = [t \in Tasks |-> <<>>]
    /\ ret = NoReturn
    /\ ncalls = 0
    /\ order = <<>>
    /\ tsince = [t \in Tasks |-> 0]
    /\ tpassed = [t \in Tasks |-> NotPassed]
    /\ lastw = NoWriter
    /\ url = <<>> /\ authArgs = <<PyNone, PyNone>>

Init == InitWith({"123"}, {"https://a.test/cb"}, Scopes)

InitAuth == InitWith({"123", "456"}, {"https://a.test/cb", "https://b.test/cb"}, AuthScopes)

----------------------------------------------------------------------------
(* client.py: the application's calls on the OAuth2Client *)

Auth(state, prompt) ==
    /\ url' = auth(cfg, state, prompt)
    /\ authArgs' = <<state, prompt>>
    /\ UNCHANGED <<ctor, cfg, state_info, clientVars, userVars>>

ExchangeCode(code) ==
    /\ cpc = "idle" /\ users = <<>>
    /\ creq' = ExchangeCodeRequest(cfg, code)
    /\ cpc' = "exchange_code"
    /\ cret' = NoReturn
    /\ UNCHANGED <<ctor, cfg, state_info, carg, userVars, authVars>>

ExchangeCodeResume(reply) ==
    /\ cpc = "exchange_code"
    /\ cpc' = "idle"
    /\ creq' = NoRequest
    /\ IF reply.raised # NoException
       THEN cret' = Raised(0, "exchange_code", reply.raised)
       ELSE LET token_resp == TokenResponseInit(PyDict(reply.token))
            IN  cret' = [Returned(0, "exchange_code") EXCEPT
                            !.raised = token_resp.raised, !.token = token_resp.token]
    /\ UNCHANGED <<ctor, cfg, state_info, carg, userVars, authVars>>

\* The TokenResponse objects the application holds: what exchange_code returned.
HeldTokens ==
    IF cret.op = "exchange_code" /\ cret.raised = NoException
    THEN {PyToken(cret.token)} ELSE {}

Identify(token) ==
    /\ cpc = "idle" /\ users = <<>>
    /\ creq' = IdentifyRequest(token)
    /\ carg' = token
    /\ cpc' = "identify"
    /\ cret' = NoReturn
    /\ UNCHANGED <<ctor, cfg, state_info, userVars, authVars>>

IdentifyResume(reply) ==
    /\ cpc = "identify"
    /\ cpc' = "idle"
    /\ creq' = NoRequest
    /\ IF reply.raised # NoException
       THEN cret' = Raised(0, "identify", reply.raised) /\ users' = users
       ELSE LET user == UserInit(reply.user, carg)
            IN  /\ cret' = [Returned(0, "identify") EXCEPT
                               !.raised = user.raised, !.user = user.user]
                /\ users' = IF user.raised = NoException THEN <<user.user>> ELSE users
    /\ UNCHANGED <<ctor, cfg, state_info, carg, tpc, treq, targ, tcache, ret, ncalls, order,
                   tsince, tpassed, lastw, authVars>>

----------------------------------------------------------------------------
(* models.py: the tasks' calls on the User *)

Refresh(t) ==
    /\ users # <<>> /\ tpc[t] = "idle" /\ ncalls < MaxCalls
    /\ treq' = [treq EXCEPT ![t] = RefreshRequest(users[1], state_info)]
    /\ tpc' = [tpc EXCEPT ![t] = "refresh"]
    /\ ncalls' = ncalls + 1
    /\ order' = Append(order, t)
    /\ lastw' = NoWriter
    /\ UNCHANGED <<ctor, cfg, state_info, clientVars, users, targ, tcache, ret, tsince, tpassed,
                   authVars>>

\* The refresh() calls still awaiting their response that were made before
\* task t's.
EarlierPending(t) ==
    {order[i] : i \in {j \in 1..Len(order) : \E k \in (j+1)..Len(order) : order[k] = t}}

Without(seq, t) == SelectSeq(seq, LAMBDA o : o # t)

RefreshResume(t, reply) ==
    /\ tpc[t] = "refresh"
    /\ tpc' = [tpc EXCEPT ![t] = "idle"]
    /\ treq' = [treq EXCEPT ![t] = NoRequest]
    /\ order' = Without(order, t)
    /\ LET token_resp == IF reply.raised # NoException
                         THEN [raised |-> reply.raised, token |-> NoToken]
                         ELSE TokenResponseInit(PyDict(reply.token))
       IN  IF token_resp.raised # NoException
           THEN /\ ret' = Raised(t, "refresh", token_resp.raised)
                /\ tsince' = [tsince EXCEPT ![t] = 0]
                /\ tpassed' = [tpassed EXCEPT ![t] = NotPassed]
                /\ lastw' = NoWriter
                /\ UNCHANGED users
           ELSE /\ users' = <<RefreshAssign(users[1], token_resp.token)>>
                /\ ret' = [Returned(t, "refresh") EXCEPT !.token = token_resp.token]
                /\ tsince' = [o \in Tasks |->
                                 IF o # t /\ tpc[o] # "idle" THEN tsince[o] + 1 ELSE 0]
                /\ tpassed' = [o \in Tasks |->
                                  IF o = t \/ tpc[o] # "refresh" THEN NotPassed
                                  ELSE [by |-> IF o \in EarlierPending(t)
                                               THEN "later" ELSE "earlier",
                                        sent |-> treq[t].refresh_token]]
                /\ lastw' = [task |-> t, sent |-> treq[t].refresh_token,
                             other |-> tpassed[t],
                             replaced |-> access_token(users[1])]
    /\ UNCHANGED <<ctor, cfg, state_info, clientVars, targ, tcache, ncalls, authVars>>

FetchGuilds(t, refresh) ==
    /\ users # <<>> /\ tpc[t] = "idle" /\ ncalls < MaxCalls
    /\ ncalls' = ncalls + 1
    /\ lastw' = NoWriter
    /\ IF FetchGuildsCached(users[1], refresh)
       THEN /\ ret' = [Returned(t, "fetch_guilds") EXCEPT
                          !.refresh = refresh, !.requested = FALSE,
                          !.guilds = users[1].guilds]
            /\ UNCHANGED <<tpc, treq, targ, tcache>>
       ELSE /\ treq' = [treq EXCEPT ![t] = FetchGuildsRequest(users[1])]
            /\ targ' = [targ EXCEPT ![t] = refresh]
            /\ tcache' = [tcache EXCEPT ![t] = users[1].guilds]
            /\ tpc' = [tpc EXCEPT ![t] = "fetch_guilds"]
            /\ UNCHANGED ret
    /\ UNCHANGED <<ctor, cfg, state_info, clientVars, users, order, tsince, tpassed,
                   authVars>>

FetchGuildsResume(t, reply) ==
    /\ tpc[t] = "fetch_guilds"
    /\ tpc' = [tpc EXCEPT ![t] = "idle"]
    /\ treq' = [treq EXCEPT ![t] = NoRequest]
    /\ targ' = [targ EXCEPT ![t] = FALSE]
    /\ tcache' = [tcache EXCEPT ![t] = <<>>]
    /\ tsince' = [tsince EXCEPT ![t] = 0]
    /\ lastw' = NoWriter
    /\ IF reply.raised # NoException
       THEN /\ ret' = [Raised(t, "fetch_guilds", reply.raised) EXCEPT
                          !.refresh = targ[t]]
            /\ UNCHANGED users
       ELSE LET built == FetchGuildsLoop(reply.guilds, users[1].id, <<>>)
            IN  /\ users' = <<[users[1] EXCEPT !.guilds = built.guilds]>>
                /\ ret' = IF built.raised # NoException
                          THEN [Raised(t, "fetch_guilds", built.raised) EXCEPT
                                   !.refresh = targ[t]]
                          ELSE [Returned(t, "fetch_guilds") EXCEPT
                                   !.refresh = targ[t], !.guilds = built.guilds]
    /\ UNCHANGED <<ctor, cfg, state_info, clientVars, ncalls, order, tpassed, authVars>>

----------------------------------------------------------------------------
(* Specifications *)

Next ==
    \/ \E code \in Codes : ExchangeCode(code)
    \/ \E reply \in TokenReplies \cup ErrorReplies : ExchangeCodeResume(reply)
    \/ \E token \in HeldTokens \cup {PyString(s) : s \in AccessTokens} : Identify(token)
    \/ \E reply \in UserReplies \cup ErrorReplies : IdentifyResume(reply)
    \/ \E t \in Tasks : Refresh(t)
    \/ \E t \in Tasks, reply \in TokenReplies \cup ErrorReplies : RefreshResume(t, reply)
    \/ \E t \in Tasks, refresh \in BOOLEAN : FetchGuilds(t, refresh)
    \/ \E t \in Tasks, reply \in GuildReplies \cup ErrorReplies : FetchGuildsResume(t, reply)

Spec == Init /\ [][Next]_vars

NextAuth == \E state \in AuthStates, prompt \in AuthPrompts : Auth(state, prompt)

SpecAuth == InitAuth /\ [][NextAuth]_vars

----------------------------------------------------------------------------
(* Properties *)

FullTokenReplies == {r \in TokenReplies : TokenFields \subseteq DOMAIN r.token}
PartialTokenReplies == TokenReplies \ FullTokenReplies
FullUserReplies == {r \in UserReplies : UserFields \subseteq DOMAIN r.user}

IsGuildsRequest(r) == r.method = "GET" /\ r.path = "/users/@me/guilds"

\* C1: a fetch_guilds(refresh=False) call issues GET /users/@me/guilds if and
\* only if the cache is empty when it is called; with a non-empty cache it
\* issues nothing, returns the cache and leaves the User as it was.
C1_CacheDecidesRequest ==
    [][\A t \in Tasks :
          FetchGuilds(t, FALSE) =>
             /\ IsGuildsRequest(treq'[t]) <=> (users[1].guilds = <<>>)
             /\ users[1].guilds # <<>> =>
                   /\ treq' = treq /\ tpc' = tpc
                   /\ ret'.raised = NoException
                   /\ ret'.guilds = users[1].guilds
                   /\ users' = users]_vars

\* A fetch_guilds found zero guilds and returned, leaving the cache empty,
\* and a refresh=False call made on that empty cache has issued the request
\* and awaits its response.
C1_Witness ==
    /\ ret.op = "fetch_guilds" /\ ret.requested /\ ret.raised = NoException
    /\ ret.guilds = <<>> /\ users[1].guilds = <<>>
    /\ \E t \in Tasks : tpc[t] = "fetch_guilds" /\ ~targ[t] /\ IsGuildsRequest(treq[t])

\* C2: when the transport returns a list of guild objects, each carrying an
\* id and a name, fetch_guilds succeeds, the cache holds one Guild per element
\* in response order, each linked to this User, and the cache is returned.
C2_FetchBuildsEveryGuild ==
    [][\A t \in Tasks : \A reply \in GuildReplies :
          (/\ FetchGuildsResume(t, reply)
           /\ \A i \in 1..Len(reply.guilds) : {"id", "name"} \subseteq DOMAIN reply.guilds[i])
          => /\ ret'.raised = NoException
             /\ Len(users'[1].guilds) = Len(reply.guilds)
             /\ \A i \in 1..Len(reply.guilds) :
                   /\ users'[1].guilds[i].name = reply.guilds[i]["name"]
                   /\ users'[1].guilds[i].user = users[1].id
             /\ ret'.guilds = users'[1].guilds]_vars

\* C3: refresh() sends the refresh_token of the TokenResponse held when it is
\* called, with the transport's stored client credentials; when the response
\* is a complete token payload the held TokenResponse becomes the one built
\* from it, and that one is returned.
C3_RefreshReplacesToken ==
    [][\A t \in Tasks :
          /\ Refresh(t) =>
                /\ treq'[t].method = "POST" /\ treq'[t].path = "/oauth2/token"
                /\ treq'[t].refresh_token = users[1]._acr.refresh_token
                /\ treq'[t].client_id = state_info.client_id
                /\ treq'[t].client_secret = state_info.client_secret
                /\ treq'[t].grant_type = "refresh_token"
          /\ \A reply \in FullTokenReplies :
                RefreshResume(t, reply) =>
                   /\ users'[1]._acr = reply.token
                   /\ ret'.raised = NoException
                   /\ ret'.token = users'[1]._acr]_vars

\* A refresh() has just returned and the User holds a different access token
\* than before.
C3_Witness ==
    /\ ret.op = "refresh" /\ ret.raised = NoException
    /\ lastw.task = ret.task
    /\ users[1]._acr = ret.token
    /\ lastw.replaced # users[1]._acr.access_token

\* The access token of identify's argument, a str or a TokenResponse.
AccessTokenOf(token) ==
    IF token.type = "TokenResponse" THEN token.obj.access_token ELSE token.str

\* C4: identify sends "Bearer <access_token>" for a TokenResponse and for a raw
\* access-token string alike, and when GET /users/@me succeeds it returns a
\* User whose access_token is the supplied one.
C4_IdentifyBindsCredential ==
    [][/\ \A token \in HeldTokens \cup {PyString(s) : s \in AccessTokens} :
             Identify(token) => creq'.Authorization = <<"Bearer ", AccessTokenOf(token)>>
       /\ \A reply \in FullUserReplies :
             IdentifyResume(reply) =>
                /\ cret'.raised = NoException
                /\ users' # <<>>
                /\ cret'.user._acr.access_token = AccessTokenOf(carg)]_vars

\* C6: a token payload lacking one of the five fields makes exchange_code and
\* refresh() raise KeyError, the User keeps its token, and no TokenResponse
\* that is returned or held has a None field.
C6_MissingFieldRaises ==
    [][/\ \A reply \in PartialTokenReplies :
             /\ ExchangeCodeResume(reply) =>
                   cret'.raised = "KeyError" /\ cret'.token = NoToken
             /\ \A t \in Tasks :
                   RefreshResume(t, reply) =>
                      ret'.raised = "KeyError" /\ ret'.token = NoToken /\ users' = users
       /\ \A f \in TokenFields :
             /\ cret'.token[f] # None
             /\ ret'.token[f] # None
             /\ users' # <<>> => users'[1]._acr[f] # None]_vars

\* A refresh() has just raised KeyError.
C6_Witness ==
    /\ ret.op = "refresh" /\ ret.raised = "KeyError"
    /\ users # <<>> /\ \A f \in TokenFields : users[1]._acr[f] \notin {None, Absent}

(* Reading a URL back: the text after "?" split at "&" into parameters *)

RECURSIVE SplitAt(_, _)
SplitAt(str, sep) ==
    IF \A i \in 1..Len(str) : str[i] # sep THEN <<str>>
    ELSE LET i == CHOOSE j \in 1..Len(str) :
                     str[j] = sep /\ \A k \in 1..(j-1) : str[k] # sep
         IN  <<SubSeq(str, 1, i - 1)>> \o SplitAt(SubSeq(str, i + 1, Len(str)), sep)

QueryParams(u) ==
    LET parts == SplitAt(u, "?")
    IN  IF Len(parts) # 2 THEN <<>> ELSE SplitAt(parts[2], "&")

\* text is the scope names, in order, with one space between neighbours
SpaceJoined(text, names) ==
    /\ Len(text) = (IF names = <<>> THEN 0 ELSE 2 * Len(names) - 1)
    /\ \A i \in 1..Len(names) : text[2 * i - 1] = names[i]
    /\ \A i \in 1..(Len(names) - 1) : text[2 * i] = " "

Given(x) == ~x.isNone
GivenNonEmpty(x) == ~x.isNone /\ Len(x.s) > 0

\* The parameters of u are client_id, redirect_uri, scope, response_type=code,
\* then state if hasState, then prompt if hasPrompt, and nothing else.
AuthUrlShape(u, hasState, hasPrompt) ==
    LET ps == QueryParams(u)
        n == 4 + (IF hasState THEN 1 ELSE 0) + (IF hasPrompt THEN 1 ELSE 0)
    IN  /\ Len(ps) = n
        /\ ps[1] = <<"client_id", "=", ctor.client_id>>
        /\ ps[2] = <<"redirect_uri", "=", ctor.redirect_uri>>
        /\ Len(ps[3]) >= 2 /\ ps[3][1] = "scope" /\ ps[3][2] = "="
        /\ ~ctor.scopes.isNone =>
              SpaceJoined(SubSeq(ps[3], 3, Len(ps[3])), ctor.scopes.s)
        /\ ps[4] = <<"response_type", "=", "code">>
        /\ hasState => ps[5] = <<"state", "=">> \o authArgs[1].s
        /\ hasPrompt => ps[n] = <<"prompt", "=">> \o authArgs[2].s

\* C5 as stated: auth returns client_id, redirect_uri, scope and
\* response_type=code in that order, then state exactly when a state is
\* supplied (a string, not None), then prompt exactly when a prompt is supplied.
C5_ParamsWhenSupplied ==
    url # <<>> => AuthUrlShape(url, Given(authArgs[1]), Given(authArgs[2]))

\* C5 amended: state and prompt appear exactly when they are non-empty strings.
C5_ParamsWhenNonEmpty ==
    url # <<>> => AuthUrlShape(url, GivenNonEmpty(authArgs[1]), GivenNonEmpty(authArgs[2]))

\* auth was called with an empty state and a prompt, for a client with two scopes.
C5_Witness ==
    /\ url # <<>>
    /\ authArgs = <<PyVal(<<>>), PyVal(<<"consent">>)>>
    /\ ctor.scopes = PyVal(<<"identify", "guilds">>)
    /\ Len(QueryParams(url)) = 5

\* The held TokenResponse is the one built from the response of any
\* refresh() that resumes after another refresh() succeeded while it was
\* pending, whether that other call was made earlier or later.
LastWriterWins ==
    \A t \in Tasks : \A reply \in FullTokenReplies :
        (RefreshResume(t, reply) /\ tpassed[t].by # Absent) =>
            /\ users'[1]._acr = reply.token
            /\ ret'.token = reply.token

\* C7 as stated: any two refresh() calls pending together carry the same
\* refresh_token, and the last response processed decides the held token.
C7_OverlapSameToken ==
    [][/\ \A a, b \in Tasks :
             (tpc'[a] = "refresh" /\ tpc'[b] = "refresh") =>
                treq'[a].refresh_token = treq'[b].refresh_token
       /\ LastWriterWins]_vars

\* C7 amended: two refresh() calls pending together carry the same
\* refresh_token when no refresh() replaced the held token between the two
\* calls, and the last response processed decides the held token.
C7_OverlapSameTokenUnlessReplaced ==
    [][/\ \A a, b \in Tasks :
             (tpc'[a] = "refresh" /\ tpc'[b] = "refresh" /\ tsince'[a] = tsince'[b]) =>
                treq'[a].refresh_token = treq'[b].refresh_token
       /\ LastWriterWins]_vars

\* The refresh() called first has just resumed last: the call made after it
\* sent the same refresh_token and had already replaced the token, and the
\* User now holds the first call's token, a different one.
C7_Witness ==
    /\ lastw.task # 0
    /\ lastw.other.by = "later"
    /\ lastw.other.sent = lastw.sent
    /\ ret.op = "refresh" /\ users[1]._acr = ret.token
    /\ lastw.replaced # users[1]._acr.access_token

C9_BearerIsHeldToken ==
    [][/\ \A t \in Tasks : \A refresh \in BOOLEAN :
             (FetchGuilds(t, refresh) /\ tpc'[t] = "fetch_guilds") =>
                /\ IsGuildsRequest(treq'[t])
                /\ treq'[t].Authorization = <<"Bearer ", users[1]._acr.access_token>>
       /\ \A t \in Tasks :
             (tpc'[t] = "fetch_guilds" /\ tsince'[t] = 0) =>
                treq'[t].Authorization = <<"Bearer ", users'[1]._acr.access_token>>]_vars

\* One fetch_guilds called before a refresh() replaced the token and one called
\* after it are pending: the first carries the old token, the second the new.
C9_Witness ==
    \E a, b \in Tasks :
        /\ tpc[a] = "fetch_guilds" /\ tsince[a] > 0
        /\ tpc[b] = "fetch_guilds" /\ tsince[b] = 0
        /\ treq[b].Authorization = <<"Bearer ", users[1]._acr.access_token>>
        /\ treq[a].Authorization # treq[b].Authorization

====
